---- MODULE Spec2Model ----
(***************************************************************************)
(* Model of src/krpano/krpano_metadata.rs: the krpano multires parser, the *)
(* URL template tokenizer and its side expansion, and the resolver that    *)
(* flattens a tree of level / shape nodes into level descriptions.         *)
(*                                                                         *)
(* A string is a sequence of one-character strings.  Every function of the *)
(* source is an operator of the same name; a behaviour draws the arguments *)
(* of one call in Init and the actions perform the call.                   *)
(***************************************************************************)
EXTENDS Integers, Sequences, FiniteSets

VARIABLES
    pc,        \* the call that is pending, or "done"
    s,         \* parse_multires: the multires string
    input,     \* from_str: the template string
    self,      \* level_descriptions: the node the method is called on
    size,      \* level_descriptions: the inherited size, an Option<Vec2d>
    multires,  \* Some(what parse_multires returned), None before the call
    template,  \* Some(what from_str returned), None before the call
    sides,     \* Some(what all_sides yielded, collected), None before the call
    descs      \* Some(what level_descriptions returned), None before the call

vars == <<pc, s, input, self, size, multires, template, sides, descs>>

----------------------------------------------------------------------------
(* Option<T> and Result<T, E> *)

None == [some |-> FALSE]

Some(v) == [some |-> TRUE, val |-> v]

Ok(v) == [ok |-> TRUE, val |-> v]

Err(e) == [ok |-> FALSE, err |-> e]

----------------------------------------------------------------------------
(* str::split and str::parse::<u32> *)

Digits == {"0", "1", "2", "3", "4", "5", "6", "7", "8", "9"}

DigitValue(c) ==
    CASE c = "0" -> 0 [] c = "1" -> 1 [] c = "2" -> 2 [] c = "3" -> 3
      [] c = "4" -> 4 [] c = "5" -> 5 [] c = "6" -> 6 [] c = "7" -> 7
      [] c = "8" -> 8 [] c = "9" -> 9

\* u32::MAX = 4294967295, as its decimal digits: the value does not fit a
\* TLC integer, so the overflow test compares digit strings.
U32MaxDigits == <<4, 2, 9, 4, 9, 6, 7, 2, 9, 5>>

RECURSIVE StripZeros(_)
StripZeros(ds) ==
    IF ds # <<>> /\ Head(ds) = "0" THEN StripZeros(Tail(ds)) ELSE ds

\* ds, a string of digits without leading zeros, denotes more than u32::MAX.
Overflows(ds) ==
    \/ Len(ds) > Len(U32MaxDigits)
    \/ /\ Len(ds) = Len(U32MaxDigits)
       /\ \E i \in 1..Len(ds) :
            /\ DigitValue(ds[i]) > U32MaxDigits[i]
            /\ \A j \in 1..(i - 1) : DigitValue(ds[j]) = U32MaxDigits[j]

RECURSIVE Decimal(_, _)
Decimal(ds, acc) ==
    IF ds = <<>> THEN acc ELSE Decimal(Tail(ds), 10 * acc + DigitValue(Head(ds)))

\* <u32 as FromStr>::from_str(t).ok(): an optional '+', then one or more
\* decimal digits denoting at most u32::MAX.
ParseU32(t) ==
    LET ds == IF t # <<>> /\ Head(t) = "+" THEN Tail(t) ELSE t
    IN  IF ds = <<>> \/ \E i \in 1..Len(ds) : ds[i] \notin Digits THEN None
        ELSE IF Overflows(StripZeros(ds)) THEN None
        ELSE Some(Decimal(StripZeros(ds), 0))

\* The index of the first sep in t at or after position p, Len(t) + 1 if none.
RECURSIVE Find(_, _, _)
Find(t, sep, p) ==
    IF p > Len(t) \/ t[p] = sep THEN p ELSE Find(t, sep, p + 1)

\* t.split(sep), collected: never empty, "" splits into one empty piece.
RECURSIVE Split(_, _)
Split(t, sep) ==
    LET e == Find(t, sep, 1)
    IN  IF e > Len(t) THEN <<t>>
        ELSE <<SubSeq(t, 1, e - 1)>> \o Split(SubSeq(t, e + 1, Len(t)), sep)

----------------------------------------------------------------------------
(* parse_multires *)

Vec2d(x, y) == [x |-> x, y |-> y]

\* ParseDims with the height defaulting to the base tile size, not the width.
ParseDimsHeightFromTile(dim_str, tilesize_x) ==
    LET dims == Split(dim_str, "x")
        x    == IF Len(dims) >= 1 THEN ParseU32(dims[1]) ELSE None
        yOpt == IF Len(dims) >= 2 THEN ParseU32(dims[2]) ELSE None
        tOpt == IF Len(dims) >= 3 THEN ParseU32(dims[3]) ELSE None
        y    == IF yOpt.some THEN yOpt.val ELSE tilesize_x
        tilesize == IF tOpt.some THEN tOpt.val ELSE tilesize_x
    IN  IF Len(dims) < 1 THEN Err("missing width")
        ELSE IF ~x.some THEN Err("invalid width")
        ELSE Ok(<<Vec2d(x.val, y), Vec2d(tilesize, tilesize)>>)

\* The closure of parse_multires applied to one comma-separated piece.
ParseDims(dim_str, tilesize_x) ==
    LET dims == Split(dim_str, "x")
        x    == IF Len(dims) >= 1 THEN ParseU32(dims[1]) ELSE None
        yOpt == IF Len(dims) >= 2 THEN ParseU32(dims[2]) ELSE None
        tOpt == IF Len(dims) >= 3 THEN ParseU32(dims[3]) ELSE None
        y    == IF yOpt.some THEN yOpt.val ELSE x.val
        tilesize == IF tOpt.some THEN tOpt.val ELSE tilesize_x
    IN  IF Len(dims) < 1 THEN Err("missing width")
        ELSE IF ~x.some THEN Err("invalid width")
        ELSE Ok(<<Vec2d(x.val, y), Vec2d(tilesize, tilesize)>>)

\* The entries before the first failed one, then that failure.
RECURSIVE UntilFirstErr(_)
UntilFirstErr(rs) ==
    IF rs = <<>> THEN <<>>
    ELSE IF ~Head(rs).ok THEN <<Head(rs)>>
    ELSE <<Head(rs)>> \o UntilFirstErr(Tail(rs))

\* parse_multires that stops at the first entry that fails.
ParseMultiresStopsAtErr(str) ==
    LET parts == Split(str, ",")
        maybe_tilesize == IF Len(parts) >= 1 THEN ParseU32(parts[1]) ELSE None
    IN  IF ~maybe_tilesize.some THEN <<Err("missing tilesize")>>
        ELSE UntilFirstErr([i \in 1..(Len(parts) - 1) |->
                ParseDims(parts[i + 1], maybe_tilesize.val)])

\* parse_multires that reports the missing tile size and goes on with the
\* entries, each with a tile size of 0.
ParseMultiresGoesOn(str) ==
    LET parts == Split(str, ",")
        maybe_tilesize == IF Len(parts) >= 1 THEN ParseU32(parts[1]) ELSE None
    IN  IF ~maybe_tilesize.some
        THEN <<Err("missing tilesize")>>
                \o [i \in 1..(Len(parts) - 1) |-> ParseDims(parts[i + 1], 0)]
        ELSE [i \in 1..(Len(parts) - 1) |->
                ParseDims(parts[i + 1], maybe_tilesize.val)]

parse_multires(str) ==
    LET parts == Split(str, ",")
        maybe_tilesize == IF Len(parts) >= 1 THEN ParseU32(parts[1]) ELSE None
    IN  IF ~maybe_tilesize.some THEN <<Err("missing tilesize")>>
        ELSE [i \in 1..(Len(parts) - 1) |->
                ParseDims(parts[i + 1], maybe_tilesize.val)]

----------------------------------------------------------------------------
(* TemplateString<T>: a Vec of TemplateStringPart<T>, modelled as the       *)
(* sequence of its parts.  TemplateVariable is "X", "Y" or "Side", XY is    *)
(* "X" or "Y".                                                              *)

Literal(text) == [type |-> "Literal", text |-> text]

Variable(padding, variable) ==
    [type |-> "Variable", padding |-> padding, variable |-> variable]

\* format!("Unknown template variable '{}' in '{}'", x, input), kept as the
\* pieces the formatted text is the concatenation of.
UnknownVariable(x, inp) ==
    <<"Unknown template variable '", <<x>>, "' in '", inp, "'">>

\* format!("Invalid templating syntax in '{}'", input)
InvalidSyntax(inp) == <<"Invalid templating syntax in '", inp, "'">>

\* The index of the first character other than c in t at or after position
\* p, Len(t) + 1 if there is none: where take_while_ref(|&x| x == c) stops.
RECURSIVE Skip(_, _, _)
Skip(t, c, p) ==
    IF p > Len(t) \/ t[p] # c THEN p ELSE Skip(t, c, p + 1)

\* MatchVariable that takes 'r' (row) for a horizontal variable.
MatchVariableRowIsX(c) ==
    IF c \in {"h", "x", "u", "c", "r"} THEN Some("X")
    ELSE IF c \in {"v", "y"} THEN Some("Y")
    ELSE IF c = "s" THEN Some("Side")
    ELSE None

\* The match on the character after the padding: Some(variable), or None
\* for a character that is no template variable.
MatchVariable(c) ==
    IF c \in {"h", "x", "u", "c"} THEN Some("X")
    ELSE IF c \in {"v", "y", "r"} THEN Some("Y")
    ELSE IF c = "s" THEN Some("Side")
    ELSE None

\* The loop of from_str that takes an escape cut short by the end of the
\* input for the end of the template.
RECURSIVE FromStrLoopLenient(_, _, _)
FromStrLoopLenient(inp, pos, parts) ==
    LET pct     == Find(inp, "%", pos)
        literal == SubSeq(inp, pos, pct - 1)
        parts1  == Append(parts, Literal(literal))
        var     == Skip(inp, "0", pct + 1)
        padding == var - (pct + 1)
    IN  IF pct > Len(inp) THEN Ok(parts1)
        ELSE IF var > Len(inp) THEN Ok(parts1)
        ELSE IF ~MatchVariable(inp[var]).some
            THEN Err(UnknownVariable(inp[var], inp))
        ELSE FromStrLoopLenient(inp, var + 1,
                Append(parts1, Variable(padding, MatchVariable(inp[var]).val)))

\* The loop of from_str that skips the zeros of an escape without counting
\* them.
RECURSIVE FromStrLoopNoPadding(_, _, _)
FromStrLoopNoPadding(inp, pos, parts) ==
    LET pct     == Find(inp, "%", pos)
        literal == SubSeq(inp, pos, pct - 1)
        parts1  == Append(parts, Literal(literal))
        var     == Skip(inp, "0", pct + 1)
    IN  IF pct > Len(inp) THEN Ok(parts1)
        ELSE IF var > Len(inp) THEN Err(InvalidSyntax(inp))
        ELSE IF ~MatchVariable(inp[var]).some
            THEN Err(UnknownVariable(inp[var], inp))
        ELSE FromStrLoopNoPadding(inp, var + 1,
                Append(parts1, Variable(0, MatchVariable(inp[var]).val)))

\* The loop of from_str with chars at position pos and parts collected.
RECURSIVE FromStrLoop(_, _, _)
FromStrLoop(inp, pos, parts) ==
    LET pct     == Find(inp, "%", pos)
        literal == SubSeq(inp, pos, pct - 1)
        parts1  == Append(parts, Literal(literal))
        var     == Skip(inp, "0", pct + 1)
        padding == var - (pct + 1)
    IN  IF pct > Len(inp) THEN Ok(parts1)
        ELSE IF var > Len(inp) THEN Err(InvalidSyntax(inp))
        ELSE IF ~MatchVariable(inp[var]).some
            THEN Err(UnknownVariable(inp[var], inp))
        ELSE FromStrLoop(inp, var + 1,
                Append(parts1, Variable(padding, MatchVariable(inp[var]).val)))

from_str(inp) == FromStrLoop(inp, 1, <<>>)

\* What a slice out of the string's bounds does.
Panic == [panic |-> TRUE]

\* with_side that puts the whole name of the side in the place of %s.
WithSideWholeName(part, side) ==
    IF part.type = "Literal" THEN Literal(part.text)
    ELSE CASE part.variable = "X" -> Variable(part.padding, "X")
           [] part.variable = "Y" -> Variable(part.padding, "Y")
           [] part.variable = "Side" -> Literal(side)

with_side(part, side) ==
    IF part.type = "Literal" THEN Literal(part.text)
    ELSE CASE part.variable = "X" -> Variable(part.padding, "X")
           [] part.variable = "Y" -> Variable(part.padding, "Y")
           [] part.variable = "Side" ->
                IF Len(side) < 1 THEN Panic ELSE Literal(SubSeq(side, 1, 1))

SideNames ==
    << <<"f", "o", "r", "w", "a", "r", "d">>, <<"b", "a", "c", "k">>,
       <<"l", "e", "f", "t">>, <<"r", "i", "g", "h", "t">>, <<"u", "p">>,
       <<"d", "o", "w", "n">> >>

\* all_sides, its iterator collected: a sequence of <<side, TemplateString<XY>>>.
all_sides(tpl) ==
    LET has_side == \E i \in 1..Len(tpl) :
                        tpl[i].type = "Variable" /\ tpl[i].variable = "Side"
        names == IF has_side THEN SideNames ELSE << <<>> >>
    IN  [k \in 1..Len(names) |->
            <<names[k], [i \in 1..Len(tpl) |-> with_side(tpl[i], names[k])]>>]

----------------------------------------------------------------------------
(* KrpanoLevel, ShapeDesc, LevelDesc and the resolver *)

ShapeDesc(url, mres) == [url |-> url, multires |-> mres]

\* A shape variant of KrpanoLevel: kind is the variant's name.
Shape(kind, desc) == [kind |-> kind, desc |-> desc]

\* KrpanoLevel::Level(LevelAttributes { .. })
Level(tiledimagewidth, tiledimageheight, shape) ==
    [kind |-> "Level", tiledimagewidth |-> tiledimagewidth,
     tiledimageheight |-> tiledimageheight, shape |-> shape]

LevelDesc(name, sz, tilesize, url) ==
    [name |-> name, size |-> sz, tilesize |-> tilesize, url |-> url]

\* shape_descriptions that prefers the inherited size to the multires string.
ShapeDescriptionsSizeFirst(name, desc, sz) ==
    IF sz.some THEN <<Ok(LevelDesc(name, sz.val, None, desc.url))>>
    ELSE IF desc.multires.some THEN
        LET parsed == parse_multires(desc.multires.val)
        IN  [i \in 1..Len(parsed) |->
                IF parsed[i].ok
                THEN Ok(LevelDesc(name, parsed[i].val[1],
                                  Some(parsed[i].val[2]), desc.url))
                ELSE parsed[i]]
    ELSE <<Err("missing multires attribute")>>

\* shape_descriptions that skips a shape it has no size for.
ShapeDescriptionsSkips(name, desc, sz) ==
    IF desc.multires.some THEN
        LET parsed == parse_multires(desc.multires.val)
        IN  [i \in 1..Len(parsed) |->
                IF parsed[i].ok
                THEN Ok(LevelDesc(name, parsed[i].val[1],
                                  Some(parsed[i].val[2]), desc.url))
                ELSE parsed[i]]
    ELSE IF sz.some THEN <<Ok(LevelDesc(name, sz.val, None, desc.url))>>
    ELSE <<>>

shape_descriptions(name, desc, sz) ==
    IF desc.multires.some THEN
        LET parsed == parse_multires(desc.multires.val)
        IN  [i \in 1..Len(parsed) |->
                IF parsed[i].ok
                THEN Ok(LevelDesc(name, parsed[i].val[1],
                                  Some(parsed[i].val[2]), desc.url))
                ELSE parsed[i]]
    ELSE IF sz.some THEN <<Ok(LevelDesc(name, sz.val, None, desc.url))>>
    ELSE <<Err("missing multires attribute")>>

\* Iterator::flat_map(..).collect() over a sequence of sequences.
RECURSIVE Flatten(_)
Flatten(ss) == IF ss = <<>> THEN <<>> ELSE Head(ss) \o Flatten(Tail(ss))

\* level_descriptions in which a level hands down the size it inherited,
\* and its own only when it inherited none.
RECURSIVE LevelDescriptionsKeepsSize(_, _)
LevelDescriptionsKeepsSize(node, sz) ==
    IF node.kind = "Level" THEN
        LET own == Vec2d(node.tiledimagewidth, node.tiledimageheight)
            down == IF sz.some THEN sz ELSE Some(own)
        IN  Flatten([i \in 1..Len(node.shape) |->
                        LevelDescriptionsKeepsSize(node.shape[i], down)])
    ELSE shape_descriptions(node.kind, node.desc, sz)

RECURSIVE level_descriptions(_, _)
level_descriptions(node, sz) ==
    CASE node.kind = "Level" ->
            LET own == Vec2d(node.tiledimagewidth, node.tiledimageheight)
            IN  Flatten([i \in 1..Len(node.shape) |->
                            level_descriptions(node.shape[i], Some(own))])
      [] node.kind = "Cube"     -> shape_descriptions("Cube", node.desc, sz)
      [] node.kind = "Cylinder" -> shape_descriptions("Cylinder", node.desc, sz)
      [] node.kind = "Flat"     -> shape_descriptions("Flat", node.desc, sz)
      [] node.kind = "Left"     -> shape_descriptions("Left", node.desc, sz)
      [] node.kind = "Right"    -> shape_descriptions("Right", node.desc, sz)
      [] node.kind = "Front"    -> shape_descriptions("Front", node.desc, sz)
      [] node.kind = "Back"     -> shape_descriptions("Back", node.desc, sz)
      [] node.kind = "Up"       -> shape_descriptions("Up", node.desc, sz)
      [] node.kind = "Down"     -> shape_descriptions("Down", node.desc, sz)

----------------------------------------------------------------------------
(* The arguments the calls are made with *)

\* The strings over alphabet of at most n characters.
Strings(alphabet, n) == UNION {[1..k -> alphabet] : k \in 0..n}

MaxMultiresLen == 6

MultiresAlphabet == {"1", "2", ",", "x", "a"}

MultiresExamples ==
    { <<"3", ",", "6", "x", "7", ",", "8", "x", "8", ",", "9", "x", "1", "x", "4">>,
      <<"5", "1", "2", ",", "7", "6", "8", "x", "5", "5", "4">>,
      <<"5", "1", "2", ",", "7", "6", "8", "x", "5", "5", "4", ",",
        "1", "6", "6", "4", "x", "1", "2", "0", "2">>,
      <<"+", "1", ",", "+", "2", "x", "+", "3">>,
      <<"1", ",", "0", "0", "7", "x", "+">>,
      <<"1", ",", "4", "2", "9", "4", "9", "6", "7", "2", "9", "6">>,
      <<"1", ",", "9", "x", "4", "2", "9", "4", "9", "6", "7", "2", "9", "6">>,
      <<"4", "2", "9", "4", "9", "6", "7", "2", "9", "6", ",", "1">>,
      <<"-", "1", ",", "2">>,
      <<"2", ",", "1", "x", "2", "x", "1", "x", "a">> }

MultiresInputs == Strings(MultiresAlphabet, MaxMultiresLen) \cup MultiresExamples

MaxTemplateLen == 5

TemplateAlphabet == {"%", "0", "h", "v", "r", "s", "a"}

VariableChars == {"h", "x", "u", "c", "v", "y", "r", "s"}

TemplateExamples ==
    {<<"%", c>> : c \in VariableChars}
    \cup {<<"a", "%", "0", c, "0">> : c \in VariableChars \cup {"%", "q"}}
    \cup { <<"/", "%", "0", "0", "0", "r", "/", "%", "0", "0", "0", "0", "c",
             ".", "j", "p", "g">>,
           <<"l", "7", "/", "%", "v", "/", "l", "7", "_", "%", "v", "_", "%", "h",
             ".", "j", "p", "g">>,
           <<"%", "s", "/", "%", "0", "y", "_", "%", "0", "x", "%", "s">>,
           <<"%", "u", "%", "0", "0", "q", "%">> }

TemplateInputs == Strings(TemplateAlphabet, MaxTemplateLen) \cup TemplateExamples

ShapeKinds ==
    {"Cube", "Cylinder", "Flat", "Left", "Right", "Front", "Back", "Up", "Down"}

\* The url of every node of the model: "t/%v_%h", tokenized.
Url == from_str(<<"t", "/", "%", "v", "_", "%", "h">>).val

MaxShapeMultiresLen == 3

ShapeMultires ==
    {None} \cup {Some(m) : m \in Strings(MultiresAlphabet, MaxShapeMultiresLen)
                                    \cup MultiresExamples}

Shapes == {Shape(k, ShapeDesc(Url, m)) : k \in ShapeKinds, m \in ShapeMultires}

\* The shapes the trees are built of: one without multires, one whose
\* multires has two good entries, one with a bad entry between two good
\* ones, and one whose multires has no tile size.
TreeShapes ==
    { Shape("Cylinder", ShapeDesc(Url, None)),
      Shape("Flat", ShapeDesc(Url, Some(<<"2", ",", "1", ",", "3", "x", "4">>))),
      Shape("Left", ShapeDesc(Url, Some(<<"2", ",", "1", ",", "a", ",", "3">>))),
      Shape("Up", ShapeDesc(Url, Some(<<"x", ",", "1">>))) }

LevelSizes == {Vec2d(31646, 38234), Vec2d(3280, 3280)}

MaxNodes == 4

\* The trees of exactly n nodes, and the sequences of trees of n nodes in all.
RECURSIVE TreesOfSize(_), ForestsOfSize(_)
TreesOfSize(n) ==
    (IF n = 1 THEN TreeShapes ELSE {})
    \cup {Level(sz.x, sz.y, f) : sz \in LevelSizes, f \in ForestsOfSize(n - 1)}

ForestsOfSize(n) ==
    IF n = 0 THEN {<<>>}
    ELSE UNION {{<<t>> \o f : t \in TreesOfSize(k), f \in ForestsOfSize(n - k)} :
                    k \in 1..n}

Nodes == Shapes \cup UNION {TreesOfSize(n) : n \in 1..MaxNodes}

InheritedSizes == {None, Some(Vec2d(7, 9))}

\* self where level_descriptions is not the call.
NoNode == [kind |-> "none"]

----------------------------------------------------------------------------
(* The calls *)

Init ==
    /\ multires = None /\ template = None /\ sides = None /\ descs = None
    /\ \/ /\ pc = "parse_multires"
          /\ s \in MultiresInputs
          /\ input = <<>> /\ self = NoNode /\ size = None
       \/ /\ pc = "from_str"
          /\ input \in TemplateInputs
          /\ s = <<>> /\ self = NoNode /\ size = None
       \/ /\ pc = "level_descriptions"
          /\ self \in Nodes
          /\ size \in InheritedSizes
          /\ s = <<>> /\ input = <<>>

CallParseMultires ==
    /\ pc = "parse_multires"
    /\ multires' = Some(parse_multires(s))
    /\ pc' = "done"
    /\ UNCHANGED <<s, input, self, size, template, sides, descs>>

\* The url attribute is deserialized by from_str; the template that results
\* is the one all_sides is then called on.
CallFromStr ==
    /\ pc = "from_str"
    /\ template' = Some(from_str(input))
    /\ pc' = IF from_str(input).ok THEN "all_sides" ELSE "done"
    /\ UNCHANGED <<s, input, self, size, multires, sides, descs>>

CallAllSides ==
    /\ pc = "all_sides"
    /\ sides' = Some(all_sides(template.val.val))
    /\ pc' = "done"
    /\ UNCHANGED <<s, input, self, size, multires, template, descs>>

CallLevelDescriptions ==
    /\ pc = "level_descriptions"
    /\ descs' = Some(level_descriptions(self, size))
    /\ pc' = "done"
    /\ UNCHANGED <<s, input, self, size, multires, template, sides>>

Next ==
    \/ CallParseMultires
    \/ CallFromStr
    \/ CallAllSides
    \/ CallLevelDescriptions

Spec == Init /\ [][Next]_vars

----------------------------------------------------------------------------
(* What the properties are stated with: the fields of a separated string,  *)
(* read off the positions of the separator.                                *)

Positions(t, c) == {i \in 1..Len(t) : t[i] = c}

\* The k-th smallest element of the set of numbers P.
Nth(P, k) == CHOOSE p \in P : Cardinality({q \in P : q < p}) = k - 1

FieldCount(t, c) == Cardinality(Positions(t, c)) + 1

\* The k-th of the FieldCount(t, c) fields of t.
Field(t, c, k) ==
    LET P     == Positions(t, c)
        first == IF k = 1 THEN 1 ELSE Nth(P, k - 1) + 1
        last  == IF k > Cardinality(P) THEN Len(t) ELSE Nth(P, k) - 1
    IN  SubSeq(t, first, last)

IsU32(t) == ParseU32(t).some

U32(t) == ParseU32(t).val

----------------------------------------------------------------------------
(* parse_multires *)

\* C4: when the first comma-separated token of the multires string parses
\* as an unsigned integer, parse_multires returns one result per later
\* token, in order; a token's result is a success when its width part
\* parses and the error "invalid width" otherwise, and is the result the
\* token has when it is the only entry; so a string whose widths all parse
\* has as many successes as tokens after the first.
C4_OneResultPerToken ==
    (multires.some /\ IsU32(Field(s, ",", 1))) =>
        LET ret == multires.val
            n   == FieldCount(s, ",") - 1
            tok(i) == Field(s, ",", i + 1)
        IN  /\ Len(ret) = n
            /\ \A i \in 1..n :
                /\ ret[i].ok <=> IsU32(Field(tok(i), "x", 1))
                /\ ~ret[i].ok => ret[i] = Err("invalid width")
                /\ ret[i] = parse_multires(Field(s, ",", 1) \o <<",">> \o tok(i))[1]
            /\ (\A i \in 1..n : IsU32(Field(tok(i), "x", 1)))
                    => Cardinality({i \in 1..Len(ret) : ret[i].ok}) = n

\* A bad entry between two good ones, as in "1,2,a,1".
C4_Witness ==
    /\ multires.some
    /\ IsU32(Field(s, ",", 1))
    /\ Len(multires.val) = 3
    /\ multires.val[1].ok /\ ~multires.val[2].ok /\ multires.val[3].ok

Text_3_6x7_8x8_9x1x4 ==
    <<"3", ",", "6", "x", "7", ",", "8", "x", "8", ",", "9", "x", "1", "x", "4">>

\* C5: an entry width['x' height['x' tilesize]] parsed with base tile size
\* B has image size (width, height), the height being the width when the
\* entry has none, and the square tile size (t, t), t being the entry's own
\* tile size when it has one and B otherwise; "3,6x7,8x8,9x1x4" parses to
\* (6,7)@(3,3), (8,8)@(3,3), (9,1)@(4,4).
C5_EntryDefaults ==
    (multires.some /\ IsU32(Field(s, ",", 1))) =>
        LET ret == multires.val
            B   == U32(Field(s, ",", 1))
        IN  /\ \A i \in 1..(FieldCount(s, ",") - 1) :
                LET tok == Field(s, ",", i + 1)
                    fc  == FieldCount(tok, "x")
                    w   == U32(Field(tok, "x", 1))
                    h   == IF fc >= 2 THEN U32(Field(tok, "x", 2)) ELSE w
                    t   == IF fc = 3 THEN U32(Field(tok, "x", 3)) ELSE B
                IN  (fc <= 3 /\ \A k \in 1..fc : IsU32(Field(tok, "x", k))) =>
                        ret[i] = Ok(<<[x |-> w, y |-> h], [x |-> t, y |-> t]>>)
            /\ s = Text_3_6x7_8x8_9x1x4 =>
                    ret = << Ok(<<[x |-> 6, y |-> 7], [x |-> 3, y |-> 3]>>),
                             Ok(<<[x |-> 8, y |-> 8], [x |-> 3, y |-> 3]>>),
                             Ok(<<[x |-> 9, y |-> 1], [x |-> 4, y |-> 4]>>) >>

\* The parse of "3,6x7,8x8,9x1x4" has returned.
C5_Witness ==
    /\ multires.some
    /\ s = Text_3_6x7_8x8_9x1x4
    /\ Len(multires.val) = 3

\* C6: when the first comma-separated token does not parse as an unsigned
\* integer, the parse is the single error "missing tilesize": no pair, and
\* no result for any later token.
C6_MissingTilesize ==
    (multires.some /\ ~IsU32(Field(s, ",", 1))) =>
        /\ multires.val = <<Err("missing tilesize")>>
        /\ \A i \in 1..Len(multires.val) : ~multires.val[i].ok

\* Two well-formed entries after a first token that is no number, as in
\* "a,1,2x1".
C6_Witness ==
    /\ multires.some
    /\ ~IsU32(Field(s, ",", 1))
    /\ FieldCount(s, ",") = 3
    /\ \A k \in 2..3 : \A j \in 1..FieldCount(Field(s, ",", k), "x") :
            IsU32(Field(Field(s, ",", k), "x", j))
    /\ FieldCount(Field(s, ",", 3), "x") = 2
    /\ Len(multires.val) = 1

----------------------------------------------------------------------------
(* shape_descriptions and level_descriptions *)

Text_512_768x554 == <<"5", "1", "2", ",", "7", "6", "8", "x", "5", "5", "4">>

\* C1: resolving a shape node of kind F that has a multires string yields
\* one result per result of parse_multires on that string, in order: a
\* LevelDesc with name F, the entry's size, Some(its tile size) and the
\* node's template for a successful entry, the same error for a failed one;
\* the inherited size plays no part.  "512,768x554" with no inherited size
\* yields size (768,554) and tile size (512,512).
C1_ShapeWithMultires ==
    (descs.some /\ self.kind \in ShapeKinds /\ self.desc.multires.some) =>
        LET parsed == parse_multires(self.desc.multires.val)
            ret    == descs.val
        IN  /\ Len(ret) = Len(parsed)
            /\ \A i \in 1..Len(parsed) :
                IF parsed[i].ok
                THEN ret[i] = Ok([name |-> self.kind,
                                  size |-> parsed[i].val[1],
                                  tilesize |-> Some(parsed[i].val[2]),
                                  url |-> self.desc.url])
                ELSE ret[i] = parsed[i]
            /\ (self.desc.multires.val = Text_512_768x554 /\ ~size.some) =>
                    /\ Len(ret) = 1
                    /\ ret[1].ok
                    /\ ret[1].val.size = [x |-> 768, y |-> 554]
                    /\ ret[1].val.tilesize = Some([x |-> 512, y |-> 512])

\* A shape whose multires string has a bad entry between two good ones,
\* resolved with an inherited size.
C1_Witness ==
    /\ descs.some /\ self.kind \in ShapeKinds /\ self.desc.multires.some
    /\ size.some
    /\ Len(descs.val) = 3
    /\ descs.val[1].ok /\ ~descs.val[2].ok /\ descs.val[3].ok

\* C2: resolving a shape node of kind F that has no multires string yields
\* exactly one result: with an inherited size, a LevelDesc with name F,
\* that size and no tile size; without one, the error "missing multires
\* attribute" and no LevelDesc.
C2_ShapeWithoutMultires ==
    (descs.some /\ self.kind \in ShapeKinds /\ ~self.desc.multires.some) =>
        /\ Len(descs.val) = 1
        /\ size.some =>
                descs.val[1] = Ok([name |-> self.kind, size |-> size.val,
                                   tilesize |-> None, url |-> self.desc.url])
        /\ ~size.some =>
                /\ descs.val[1] = Err("missing multires attribute")
                /\ \A i \in 1..Len(descs.val) : ~descs.val[i].ok

\* A shape without multires resolved without an inherited size.
C2_Witness ==
    /\ descs.some /\ self.kind \in ShapeKinds
    /\ ~self.desc.multires.some /\ ~size.some
    /\ descs.val # <<>>

\* The sum of the lengths of the first k sequences of rs.
RECURSIVE LenSum(_, _)
LenSum(rs, k) == IF k = 0 THEN 0 ELSE LenSum(rs, k - 1) + Len(rs[k])

\* C3: resolving a level node, whatever size it inherited, yields the
\* results of its children in child order, each child resolved with the
\* level's own declared size: every result of every child is there, at its
\* place, errors included.  A level declaring (31646,38234) with one
\* cylinder child without multires yields one LevelDesc of that size and no
\* tile size.
C3_LevelConcatenatesChildren ==
    (descs.some /\ self.kind = "Level") =>
        LET own == [x |-> self.tiledimagewidth, y |-> self.tiledimageheight]
            n   == Len(self.shape)
            child == [i \in 1..n |-> level_descriptions(self.shape[i], Some(own))]
        IN  /\ Len(descs.val) = LenSum(child, n)
            /\ \A i \in 1..n : \A j \in 1..Len(child[i]) :
                    descs.val[LenSum(child, i - 1) + j] = child[i][j]
            /\ \A i \in 1..n :
                    (self.shape[i].kind \in ShapeKinds
                        /\ ~self.shape[i].desc.multires.some) =>
                    child[i] = <<Ok([name |-> self.shape[i].kind, size |-> own,
                                     tilesize |-> None,
                                     url |-> self.shape[i].desc.url])>>
            /\ (own = [x |-> 31646, y |-> 38234] /\ n = 1
                    /\ self.shape[1].kind = "Cylinder"
                    /\ ~self.shape[1].desc.multires.some) =>
                    descs.val = <<Ok([name |-> "Cylinder",
                                      size |-> [x |-> 31646, y |-> 38234],
                                      tilesize |-> None,
                                      url |-> self.shape[1].desc.url])>>

\* A level resolved with an inherited size, holding a level of another size
\* with a shape without multires, and a shape whose multires does not parse.
C3_Witness ==
    /\ descs.some /\ self.kind = "Level" /\ size.some
    /\ Len(self.shape) = 2
    /\ self.shape[1].kind = "Level"
    /\ self.shape[1].tiledimagewidth # self.tiledimagewidth
    /\ Len(self.shape[1].shape) = 1
    /\ self.shape[1].shape[1].kind = "Cylinder"
    /\ self.shape[2].kind = "Up"
    /\ Len(descs.val) = 2
    /\ descs.val[1].ok /\ ~descs.val[2].ok

----------------------------------------------------------------------------
(* from_str *)

\* The escape that starts at the '%' at position i of t is well formed:
\* zeros, then a variable character.
GoodEscape(t, i) ==
    \E j \in (i + 1)..Len(t) :
        /\ t[j] \in VariableChars
        /\ \A m \in (i + 1)..(j - 1) : t[m] = "0"

\* Every '%' of t starts a well-formed escape.
WellFormed(t) == \A i \in Positions(t, "%") : GoodEscape(t, i)

\* The position of the character that follows the zeros after position i,
\* Len(t) + 1 when the input ends there.
AfterZeros(t, i) ==
    IF \A m \in (i + 1)..Len(t) : t[m] = "0" THEN Len(t) + 1
    ELSE CHOOSE j \in (i + 1)..Len(t) :
            t[j] # "0" /\ \A m \in (i + 1)..(j - 1) : t[m] = "0"

AxisOf(c) ==
    CASE c \in {"h", "x", "u", "c"} -> "X"
      [] c \in {"v", "y", "r"} -> "Y"
      [] c = "s" -> "Side"

\* C7: a template in which every '%' is followed by zeros and then one of
\* h,x,u,c,v,y,r,s tokenizes, with k escapes, to 2k+1 parts: literal,
\* variable, ..., literal; the literals are the text between the escapes,
\* the i-th variable has the number of zeros of the i-th escape as padding
\* and the axis of its character.  "%000r" is Y padded 3, "%0000c" X padded 4.
C7_TokenizeWellFormed ==
    (template.some /\ WellFormed(input)) =>
        LET P == Positions(input, "%")
            k == Cardinality(P)
            start(i) == Nth(P, i)
            end(i)   == IF i = 0 THEN 0 ELSE AfterZeros(input, start(i))
            parts == template.val.val
        IN  /\ template.val.ok
            /\ Len(parts) = 2 * k + 1
            /\ \A i \in 1..k :
                    parts[2 * i] = [type |-> "Variable",
                                    padding |-> end(i) - start(i) - 1,
                                    variable |-> AxisOf(input[end(i)])]
            /\ \A i \in 0..k :
                    parts[2 * i + 1] =
                        [type |-> "Literal",
                         text |-> SubSeq(input, end(i) + 1,
                                    IF i = k THEN Len(input) ELSE start(i + 1) - 1)]
            /\ input = <<"%", "0", "0", "0", "r">> =>
                    parts[2] = [type |-> "Variable", padding |-> 3, variable |-> "Y"]
            /\ input = <<"a", "%", "0", "c", "0">> =>
                    parts = << [type |-> "Literal", text |-> <<"a">>],
                               [type |-> "Variable", padding |-> 1, variable |-> "X"],
                               [type |-> "Literal", text |-> <<"0">>] >>

\* "/%000r/%0000c.jpg" has been tokenized: two padded escapes between text.
C7_Witness ==
    /\ template.some
    /\ input = <<"/", "%", "0", "0", "0", "r", "/", "%", "0", "0", "0", "0", "c",
                 ".", "j", "p", "g">>
    /\ template.val.ok
    /\ Len(template.val.val) = 5
    /\ template.val.val[4] = [type |-> "Variable", padding |-> 4, variable |-> "X"]

\* C8: tokenizing fails, with an error and no parts, exactly when some '%'
\* is followed, after its zeros, by a character that is no variable
\* (unknown template variable, naming the character) or by the end of the
\* input (invalid syntax); the error is that of the leftmost such '%'.
C8_TokenizeFailure ==
    template.some =>
        LET bad == {i \in Positions(input, "%") : ~GoodEscape(input, i)}
            i   == CHOOSE b \in bad : \A c \in bad : b <= c
            j   == AfterZeros(input, i)
        IN  /\ ~template.val.ok <=> bad # {}
            /\ ~template.val.ok =>
                /\ DOMAIN template.val = {"ok", "err"}
                /\ template.val.err =
                        IF j > Len(input)
                        THEN <<"Invalid templating syntax in '", input, "'">>
                        ELSE <<"Unknown template variable '", <<input[j]>>,
                               "' in '", input, "'">>

\* "%u%00q%": a good escape, then an unknown variable, then a bare '%'.
C8_Witness ==
    /\ template.some
    /\ input = <<"%", "u", "%", "0", "0", "q", "%">>
    /\ ~template.val.ok

----------------------------------------------------------------------------
(* all_sides *)

IsSide(part) == part.type = "Variable" /\ part.variable = "Side"

\* C9: the side expansion of a tokenized template is one expansion with
\* the empty side name when no part is a Side variable, and six, named
\* forward, back, left, right, up, down in that order, when one is.  Every
\* expansion has as many parts as the template and no Side variable: each
\* Side variable is the literal of the first letter of the side's name
\* (f, b, l, r, u, d), every other part is unchanged and in place.
C9_SideExpansion ==
    sides.some =>
        LET tpl == template.val.val
            exp == sides.val
            names == << <<"f", "o", "r", "w", "a", "r", "d">>,
                        <<"b", "a", "c", "k">>, <<"l", "e", "f", "t">>,
                        <<"r", "i", "g", "h", "t">>, <<"u", "p">>,
                        <<"d", "o", "w", "n">> >>
            letters == <<"f", "b", "l", "r", "u", "d">>
            hasSide == \E i \in 1..Len(tpl) : IsSide(tpl[i])
        IN  /\ ~hasSide => Len(exp) = 1 /\ exp[1][1] = <<>>
            /\ hasSide => Len(exp) = 6 /\ \A k \in 1..6 : exp[k][1] = names[k]
            /\ \A k \in 1..Len(exp) :
                /\ Len(exp[k][2]) = Len(tpl)
                /\ \A i \in 1..Len(tpl) :
                    /\ ~IsSide(exp[k][2][i])
                    /\ exp[k][2][i] =
                            IF IsSide(tpl[i])
                            THEN [type |-> "Literal", text |-> <<letters[k]>>]
                            ELSE tpl[i]

\* "%s/%0y_%0x%s" has been expanded: six sides, two Side variables each.
C9_Witness ==
    /\ sides.some
    /\ input = <<"%", "s", "/", "%", "0", "y", "_", "%", "0", "x", "%", "s">>
    /\ Len(sides.val) = 6
    /\ sides.val[4][2][2] = [type |-> "Literal", text |-> <<"r">>]
    /\ sides.val[4][2][4] = [type |-> "Variable", padding |-> 1, variable |-> "Y"]

----------------------------------------------------------------------------
(* Rendering a template back to text *)

Zeros(n) == [i \in 1..n |-> "0"]

\* The text of one part, a variable written with the characters cx, cy and
\* 's' for the axes X, Y and Side.
RenderPart(part, cx, cy) ==
    IF part.type = "Literal" THEN part.text
    ELSE <<"%">> \o Zeros(part.padding)
            \o <<CASE part.variable = "X" -> cx
                   [] part.variable = "Y" -> cy
                   [] part.variable = "Side" -> "s">>

RECURSIVE Render(_, _, _)
Render(parts, cx, cy) ==
    IF parts = <<>> THEN <<>>
    ELSE RenderPart(Head(parts), cx, cy) \o Render(Tail(parts), cx, cy)

\* The variable characters of the escapes of the well-formed template t.
EscapeChars(t) == {t[AfterZeros(t, i)] : i \in Positions(t, "%")}

\* C10: a template that tokenizes, rendered back to text (literals as they
\* are, a variable as '%', its padding in zeros and a character of its
\* axis), tokenizes to the same parts; and the rendered text is the input
\* itself when the input writes its variables with the renderer's
\* characters.
C10_RoundTrip ==
    (template.some /\ template.val.ok) =>
        \A cx \in {"h", "x", "u", "c"}, cy \in {"v", "y", "r"} :
            LET text == Render(template.val.val, cx, cy)
            IN  /\ from_str(text) = template.val
                /\ EscapeChars(input) \subseteq {cx, cy, "s"} => text = input

\* "a%0h0" has been tokenized: a padded escape between two literals, the
\* second a zero; the text rendered from its parts is the input.
C10_Witness ==
    /\ template.some /\ template.val.ok
    /\ input = <<"a", "%", "0", "h", "0">>
    /\ Render(template.val.val, "h", "v") = input
    /\ Len(template.val.val) = 3

====
